---------------------------- MODULE Spec2Model ----------------------------
(***************************************************************************)
(* Model of realtime.py: a microphone recorder thread that cuts the audio  *)
(* stream into chunks, a main loop that forwards the chunks, and a         *)
(* transcription thread that sends each chunk to the speech service and    *)
(* merges the returned words into the printed transcript                   *)
(* (TranscriptionManager._update_transcript).                              *)
(*                                                                         *)
(* Texts are sequences of one-character strings, so that strip() and       *)
(* lower() are computed.  Timestamps are held in tenths of a second.       *)
(***************************************************************************)
EXTENDS Integers, Sequences, FiniteSets, TLC

(***************************************************************************)
(* Configuration (realtime.py, lines 18-24).                               *)
(***************************************************************************)
CHUNK_LEN_SEC == 4
CHUNK_SIZE == 1024
RATE == 16000
OVERLAP_SEC == 1

\* A number of seconds in the unit of the timestamps (tenths of a second).
Sec(n) == 10 * n

(***************************************************************************)
(* Bounds of the model.                                                    *)
(***************************************************************************)
\* Longest word list the speech service returns for one chunk.
MaxWords == 4
\* Most words two consecutive chunks of a scripted sentence share.
MaxOverlap == 4
\* Number of chunks the recorder cuts in one run of the whole program.
MaxChunks == 3

(***************************************************************************)
(* Texts: str.strip(), str.lower(), " ".join().                            *)
(***************************************************************************)
Whitespace == {" ", "\t", "\n"}

LowerChar(c) ==
    CASE c = "A" -> "a"
      [] c = "B" -> "b"
      [] c = "C" -> "c"
      [] OTHER -> c

Lower(s) == [i \in 1..Len(s) |-> LowerChar(s[i])]

RECURSIVE LStrip(_)
LStrip(s) ==
    IF s # <<>> /\ Head(s) \in Whitespace THEN LStrip(Tail(s)) ELSE s

RECURSIVE RStrip(_)
RStrip(s) ==
    IF s # <<>> /\ s[Len(s)] \in Whitespace
    THEN RStrip(SubSeq(s, 1, Len(s) - 1))
    ELSE s

Strip(s) == RStrip(LStrip(s))

\* w.word.strip().lower(): the text two words are compared by.
Normalize(s) == Lower(Strip(s))

\* " ".join(parts)
RECURSIVE Join(_)
Join(parts) ==
    IF parts = <<>> THEN <<>>
    ELSE IF Len(parts) = 1 THEN parts[1]
    ELSE parts[1] \o <<" ">> \o Join(Tail(parts))

\* What print(" " + " ".join(w.word.strip() for w in new_words), end="")
\* writes to the console.
Printed(new_words) ==
    <<" ">> \o Join([i \in 1..Len(new_words) |-> Strip(new_words[i].word)])

(***************************************************************************)
(* difflib.SequenceMatcher(None, a, b).find_longest_match(0, len(a), 0,    *)
(* len(b)).  Indices are Python's (from 0); j2len maps an index of b to    *)
(* the length of the common run ending there, 0 standing for no entry.     *)
(* No element is junk (isjunk is None, and autojunk needs 200 elements),   *)
(* so the loops that extend the match over junk leave it as it is.         *)
(***************************************************************************)
NoRuns(b) == [j \in -1..(Len(b) - 1) |-> 0]

RECURSIVE ScanB(_, _, _, _, _, _)
ScanB(a, b, i, j, j2len, acc) ==
    IF j >= Len(b) THEN acc
    ELSE IF b[j + 1] # a[i + 1] THEN ScanB(a, b, i, j + 1, j2len, acc)
    ELSE LET k == j2len[j - 1] + 1
             newj2len == [acc.newj2len EXCEPT ![j] = k]
             best == IF k > acc.best.size
                     THEN [a |-> i - k + 1, b |-> j - k + 1, size |-> k]
                     ELSE acc.best
         IN ScanB(a, b, i, j + 1, j2len, [newj2len |-> newj2len, best |-> best])

RECURSIVE ScanA(_, _, _, _, _)
ScanA(a, b, i, j2len, best) ==
    IF i >= Len(a) THEN best
    ELSE LET row == ScanB(a, b, i, 0, j2len,
                          [newj2len |-> NoRuns(b), best |-> best])
         IN ScanA(a, b, i + 1, row.newj2len, row.best)

FindLongestMatch(a, b) ==
    ScanA(a, b, 0, NoRuns(b), [a |-> 0, b |-> 0, size |-> 0])

(***************************************************************************)
(* TranscriptionManager._update_transcript (lines 158-191).                *)
(***************************************************************************)
\* prev_words_only: the normalized texts of the previous words that end
\* within OVERLAP_SEC of the end of the last previous word.
PrevWordsOnly(prev) ==
    LET InTail(w) == w.end > prev[Len(prev)].end - Sec(OVERLAP_SEC)
        tail == SelectSeq(prev, InTail)
    IN [i \in 1..Len(tail) |-> Normalize(tail[i].word)]

CurrWordsOnlyWholeList(words) ==
    [i \in 1..Len(words) |-> Normalize(words[i].word)]

\* curr_words_only: the normalized texts of the current words that start
\* in the first OVERLAP_SEC of the chunk.
CurrWordsOnly(words) ==
    LET InHead(w) == w.start < Sec(OVERLAP_SEC)
        head == SelectSeq(words, InHead)
    IN [i \in 1..Len(head) |-> Normalize(head[i].word)]

AcceptMatchOfTwo(size) == size >= 2

\* if match.size > 2
AcceptMatch(size) == size > 2

TrimIndexSizeOnly(prev, words) ==
    LET match == FindLongestMatch(PrevWordsOnly(prev), CurrWordsOnly(words))
    IN IF AcceptMatch(match.size) THEN match.size ELSE 0

\* trim_index (lines 172-178)
TrimIndex(prev, words) ==
    LET match == FindLongestMatch(PrevWordsOnly(prev), CurrWordsOnly(words))
    IN IF AcceptMatch(match.size) THEN match.b + match.size ELSE 0

SliceFromStart(words, from) == SubSeq(words, 1, Len(words) - from)

SliceAfterNext(words, from) == SubSeq(words, from + 2, Len(words))

\* words[trim_index:]
Slice(words, from) == SubSeq(words, from + 1, Len(words))

(***************************************************************************)
(* State.                                                                  *)
(***************************************************************************)
VARIABLES
    \* TranscriptionManager
    transcription_queue,  \* chunks waiting for the transcription thread
    processing,           \* the transcription thread's run flag
    last_word_end,        \* end time of the last printed word
    chunk_number,         \* responses handled so far
    prev_words,           \* the word list of the previous merge
    \* the console: every character printed by _update_transcript
    out,
    \* the last call of _update_transcript: its argument, prev_words on
    \* entry, and its locals trim_index and new_words
    last_call,
    \* the responses the speech service is going to give, when a run is
    \* scripted
    script,
    \* AudioRecorder
    recording,            \* the recorder thread's run flag
    stream,               \* "none", "open" or "closed"
    chunk_queue,          \* chunks waiting for the main loop
    current_chunk,        \* frames read since the last chunk
    total_samples,        \* samples in current_chunk
    rec_chunk_number,     \* AudioRecorder.chunk_number
    \* the device: frames delivered so far (a frame is named by its number)
    device_frames,
    \* the threads
    main_pc, main_audio,  \* main() and its local audio_data
    rec_pc,               \* _record_loop
    proc_pc, proc_audio,  \* _process_loop and its local audio_data
    interrupted,          \* KeyboardInterrupt has been raised in main()
    capture_error,        \* "Error in recording loop" has been printed
    \* the chunks handed to the speech service, with the kind of response
    transcribed

mgrVars == <<transcription_queue, processing, last_word_end, chunk_number,
             prev_words, out, last_call>>

recVars == <<recording, stream, chunk_queue, current_chunk, total_samples,
             rec_chunk_number, device_frames>>

threadVars == <<main_pc, main_audio, rec_pc, proc_pc, proc_audio,
                interrupted, capture_error, transcribed>>

vars == <<mgrVars, script, recVars, threadVars>>

NoCall == [kind |-> "none", words |-> <<>>, prev |-> <<>>,
           trim_index |-> 0, new_words |-> <<>>]

\* TranscriptionManager.__init__ (lines 89-95)
MgrInit ==
    /\ transcription_queue = <<>>
    /\ processing = FALSE
    /\ last_word_end = 0
    /\ chunk_number = 0
    /\ prev_words = <<>>
    /\ out = <<>>
    /\ last_call = NoCall

UpdateTranscriptClearing(words) ==
    IF words = <<>>
    THEN /\ last_call' = [kind |-> "empty", words |-> words,
                          prev |-> prev_words, trim_index |-> 0,
                          new_words |-> <<>>]
         /\ prev_words' = words
         /\ UNCHANGED <<last_word_end, out>>
    ELSE LET trim_index == TrimIndex(prev_words, words)
             new_words == Slice(words, trim_index)
         IN /\ last_word_end' = IF new_words # <<>>
                                 THEN new_words[Len(new_words)].end
                                 ELSE last_word_end
            /\ out' = IF new_words # <<>> THEN out \o Printed(new_words)
                                          ELSE out
            /\ prev_words' = words
            /\ last_call' = [kind |-> "merge", words |-> words,
                             prev |-> prev_words,
                             trim_index |-> trim_index,
                             new_words |-> new_words]

UpdateTranscriptRewriting(words) ==
    IF words = <<>>
    THEN /\ last_call' = [kind |-> "empty", words |-> words,
                          prev |-> prev_words, trim_index |-> 0,
                          new_words |-> <<>>]
         /\ UNCHANGED <<prev_words, last_word_end, out>>
    ELSE LET trim_index == TrimIndex(prev_words, words)
             new_words == Slice(words, trim_index)
         IN /\ last_word_end' = IF new_words # <<>>
                                 THEN new_words[Len(new_words)].end
                                 ELSE last_word_end
            /\ out' = IF new_words # <<>> THEN Printed(new_words)
                                          ELSE out
            /\ prev_words' = words
            /\ last_call' = [kind |-> "merge", words |-> words,
                             prev |-> prev_words,
                             trim_index |-> trim_index,
                             new_words |-> new_words]

UpdateTranscriptKeepingSuffix(words) ==
    IF words = <<>>
    THEN /\ last_call' = [kind |-> "empty", words |-> words,
                          prev |-> prev_words, trim_index |-> 0,
                          new_words |-> <<>>]
         /\ UNCHANGED <<prev_words, last_word_end, out>>
    ELSE LET trim_index == TrimIndex(prev_words, words)
             new_words == Slice(words, trim_index)
         IN /\ last_word_end' = IF new_words # <<>>
                                 THEN new_words[Len(new_words)].end
                                 ELSE last_word_end
            /\ out' = IF new_words # <<>> THEN out \o Printed(new_words)
                                          ELSE out
            /\ prev_words' = new_words
            /\ last_call' = [kind |-> "merge", words |-> words,
                             prev |-> prev_words,
                             trim_index |-> trim_index,
                             new_words |-> new_words]

UpdateTranscriptStamping(words) ==
    IF words = <<>>
    THEN /\ last_call' = [kind |-> "empty", words |-> words,
                          prev |-> prev_words, trim_index |-> 0,
                          new_words |-> <<>>]
         /\ UNCHANGED <<prev_words, last_word_end, out>>
    ELSE LET trim_index == TrimIndex(prev_words, words)
             new_words == Slice(words, trim_index)
         IN /\ last_word_end' = words[Len(words)].end
            /\ out' = IF new_words # <<>> THEN out \o Printed(new_words)
                                          ELSE out
            /\ prev_words' = words
            /\ last_call' = [kind |-> "merge", words |-> words,
                             prev |-> prev_words,
                             trim_index |-> trim_index,
                             new_words |-> new_words]

\* _update_transcript(words), lines 158-191
UpdateTranscript(words) ==
    IF words = <<>>
    THEN /\ last_call' = [kind |-> "empty", words |-> words,
                          prev |-> prev_words, trim_index |-> 0,
                          new_words |-> <<>>]
         /\ UNCHANGED <<prev_words, last_word_end, out>>
    ELSE LET trim_index == TrimIndex(prev_words, words)
             new_words == Slice(words, trim_index)
         IN /\ last_word_end' = IF new_words # <<>>
                                 THEN new_words[Len(new_words)].end
                                 ELSE last_word_end
            /\ out' = IF new_words # <<>> THEN out \o Printed(new_words)
                                          ELSE out
            /\ prev_words' = words
            /\ last_call' = [kind |-> "merge", words |-> words,
                             prev |-> prev_words,
                             trim_index |-> trim_index,
                             new_words |-> new_words]

\* What _transcribe_chunk returns: None after an exception, or the
\* service's response, which carries a word list or does not.
NoResponse == [kind |-> "none", words |-> <<>>]
NoWordsResponse == [kind |-> "nowords", words |-> <<>>]
WordsResponse(ws) == [kind |-> "words", words |-> ws]

\* "if response and hasattr(response, 'words')", line 119
HasWords(response) == response.kind = "words"

HandleResponseForgetting(response) ==
    /\ IF HasWords(response)
       THEN UpdateTranscript(response.words)
       ELSE /\ last_call' = [kind |-> "failed", words |-> <<>>,
                             prev |-> prev_words, trim_index |-> 0,
                             new_words |-> <<>>]
            /\ prev_words' = <<>>
            /\ UNCHANGED <<last_word_end, out>>

\* _process_loop, lines 119-121
HandleResponse(response) ==
    /\ IF HasWords(response)
       THEN UpdateTranscript(response.words)
       ELSE /\ last_call' = [kind |-> "failed", words |-> <<>>,
                             prev |-> prev_words, trim_index |-> 0,
                             new_words |-> <<>>]
            /\ UNCHANGED <<prev_words, last_word_end, out>>

(***************************************************************************)
(* The word lists the speech service is taken to return.                   *)
(***************************************************************************)
Texts == {<<"a">>, <<" ", "A">>, <<"b">>}

\* The spellings of the word "a" the service may use in one word list.
Spellings == {<<"a">>, <<" ", "A">>, <<"A", " ">>}

\* gap: tenths of a second from one word to the next; late_first: the
\* first word carries a timestamp after the others (not chronological).
Timings == {[gap |-> 3, late_first |-> FALSE],
            [gap |-> 4, late_first |-> FALSE],
            [gap |-> 3, late_first |-> TRUE]}

Timed(texts, t) ==
    [i \in 1..Len(texts) |->
        IF i = 1 /\ t.late_first
        THEN [word |-> texts[i], start |-> Sec(OVERLAP_SEC) + 2,
              end |-> Sec(OVERLAP_SEC) + 2 + t.gap]
        ELSE [word |-> texts[i], start |-> (i - 1) * t.gap,
              end |-> i * t.gap]]

\* the words "a" and "b" in any order, "a" in one spelling
Spelled(n) ==
    {[i \in 1..n |-> IF letters[i] = "a" THEN spelling ELSE <<"b">>] :
        letters \in [1..n -> {"a", "b"}], spelling \in Spellings}

\* the non-empty word lists of up to MaxWords words
WordLists ==
    UNION {{Timed(texts, t) : texts \in Spelled(n), t \in Timings}
           : n \in 1..MaxWords}

(***************************************************************************)
(* MergeSpec: a new manager handles a first word list and a second one,    *)
(* any two of WordLists.  One merge reads prev_words and words only, and   *)
(* every word list is prev_words after one merge, so the run ends with     *)
(* the first merge into a non-empty prev_words.                            *)
(***************************************************************************)
NoScript == [kind |-> "none", responses |-> <<>>]

\* AudioRecorder.__init__ (lines 29-37)
RecInit ==
    /\ recording = FALSE
    /\ stream = "none"
    /\ chunk_queue = <<>>
    /\ current_chunk = <<>>
    /\ total_samples = 0
    /\ rec_chunk_number = 0
    /\ device_frames = 0

\* main() has built the recorder and the manager (lines 195-196); no
\* thread runs yet
ThreadInit ==
    /\ main_pc = "start_manager"
    /\ main_audio = <<>>
    /\ rec_pc = "unstarted"
    /\ proc_pc = "unstarted"
    /\ proc_audio = <<>>
    /\ interrupted = FALSE
    /\ capture_error = FALSE
    /\ transcribed = <<>>

\* _process_loop, lines 115-121, for a response with words
Respond ==
    /\ last_call.prev = <<>>
    /\ chunk_number' = chunk_number + 1
    /\ \E words \in WordLists : HandleResponse(WordsResponse(words))
    /\ UNCHANGED <<transcription_queue, processing, script, recVars,
                   threadVars>>

MergeInit == MgrInit /\ RecInit /\ ThreadInit /\ script = NoScript
MergeNext == Respond
MergeSpec == MergeInit /\ [][MergeNext]_vars

(***************************************************************************)
(* ScriptSpec: the transcription thread handling the responses of a        *)
(* script fixed at the start of the run.                                   *)
(***************************************************************************)
W(text, start, end) == [word |-> text, start |-> start, end |-> end]

\* the end-to-end scenario: two chunks sharing "how are"
Hello == <<"h", "e", "l", "l", "o">>
World == <<"w", "o", "r", "l", "d">>
How == <<"h", "o", "w">>
Are == <<"a", "r", "e">>
You == <<"y", "o", "u">>

E2EChunk1 == <<W(Hello, 0, 5), W(World, 5, 10), W(How, 32, 35), W(Are, 35, 38)>>
E2EChunk2 == <<W(How, 1, 4), W(Are, 4, 7), W(You, 7, 10)>>

E2EScript == [kind |-> "e2e",
              responses |-> <<WordsResponse(E2EChunk1), WordsResponse(E2EChunk2)>>]

\* a sentence of distinct one-letter words
Alphabet == <<"a", "b", "c", "d", "e", "f", "g", "h", "i", "j", "k", "l",
              "m", "n", "o", "p", "q", "r", "s", "t", "u", "v", "w", "x">>

Token(i) == <<Alphabet[i]>>

\* The words first..first+nHead+nTail-1 of the sentence as one chunk:
\* nHead words spoken from the start of the chunk, 0.2 s each, and nTail
\* words, 0.2 s each, that end with the chunk.
SentenceChunk(first, nHead, nTail) ==
    [i \in 1..(nHead + nTail) |->
        IF i <= nHead
        THEN W(Token(first + i - 1), 2 * (i - 1), 2 * i)
        ELSE W(Token(first + i - 1),
               Sec(CHUNK_LEN_SEC) - 2 * (nHead + nTail - i + 1),
               Sec(CHUNK_LEN_SEC) - 2 * (nHead + nTail - i))]

\* A sentence over three chunks: a words, k1 words shared by chunks 1 and
\* 2, b words, k2 words shared by chunks 2 and 3, d words.
SentenceScript(a, k1, b, k2, d) ==
    [kind |-> "sentence", a |-> a, k1 |-> k1, b |-> b, k2 |-> k2, d |-> d,
     responses |->
        <<WordsResponse(SentenceChunk(1, a, k1)),
          WordsResponse(SentenceChunk(a + 1, k1 + b, k2)),
          WordsResponse(SentenceChunk(a + k1 + b + 1, k2 + d, 0))>>]

SentenceScripts ==
    {SentenceScript(a, k1, b, k2, d) :
        a \in 1..2, k1 \in 1..MaxOverlap, b \in 0..1, k2 \in 1..MaxOverlap,
        d \in 1..2}

\* a chunk, a chunk without words, a chunk: three-word lists spoken inside
\* one second
GapLists == {Timed(texts, [gap |-> 3, late_first |-> FALSE]) :
                texts \in [1..3 -> Texts]}

GapScripts ==
    {[kind |-> "gap",
      responses |-> <<WordsResponse(c1), WordsResponse(<<>>), WordsResponse(c2)>>]
        : c1 \in GapLists, c2 \in GapLists}

Scripts == {E2EScript} \cup SentenceScripts \cup GapScripts

RespondScripted ==
    /\ chunk_number < Len(script.responses)
    /\ chunk_number' = chunk_number + 1
    /\ HandleResponse(script.responses[chunk_number + 1])
    /\ UNCHANGED <<transcription_queue, processing, script, recVars,
                   threadVars>>

ScriptInit == MgrInit /\ RecInit /\ ThreadInit /\ script \in Scripts
ScriptNext == RespondScripted
ScriptSpec == ScriptInit /\ [][ScriptNext]_vars

(***************************************************************************)
(* Spec: the whole program, main() with the recorder thread and the        *)
(* transcription thread.                                                   *)
(***************************************************************************)
\* self.samples_per_chunk = RATE * CHUNK_LEN_SEC (line 36)
samples_per_chunk == RATE * CHUNK_LEN_SEC

QueueGetNewest(q) == [item |-> q[Len(q)], rest |-> SubSeq(q, 1, Len(q) - 1)]

\* queue.Queue.get on a queue that holds an item (lines 114 and 210)
QueueGet(q) == [item |-> Head(q), rest |-> Tail(q)]

QueuePutIfIdle(q, item) == IF q = <<>> THEN Append(q, item) ELSE q

\* queue.Queue.put (lines 78 and 211)
QueuePut(q, item) == Append(q, item)

GetNeverTimesOut(q) == FALSE

\* get(timeout=1) raises queue.Empty: the queue held nothing for a second
GetTimesOut(q) == q = <<>>

JoinReturnsAtOnce(pc) == TRUE

\* Thread.join() returns (lines 63-64 and 106-107): the thread has ended,
\* or start() never made it and hasattr() is false
Joined(pc) == pc \in {"unstarted", "done"}

\* The responses of the speech service in runs of the whole program: a
\* failure, a response without words, an empty word list, two word lists.
PipeList1 == Timed(<<<<"a">>, <<"b">>, <<"a">>>>, [gap |-> 3, late_first |-> FALSE])
PipeList2 == Timed(<<<<" ", "A">>, <<"b">>, <<"a">>, <<"b">>>>,
                   [gap |-> 3, late_first |-> FALSE])
PipeResponses == {NoResponse, NoWordsResponse, WordsResponse(<<>>),
                  WordsResponse(PipeList1), WordsResponse(PipeList2)}

mainVars == <<main_pc, main_audio, interrupted>>

\* ---- main() (lines 193-221) ----

\* manager.start() (line 200; lines 97-101)
MainStartManager ==
    /\ main_pc = "start_manager"
    /\ processing' = TRUE
    /\ proc_pc' = "while"
    /\ main_pc' = "start_recorder"
    /\ UNCHANGED <<transcription_queue, last_word_end, chunk_number,
                   prev_words, out, last_call, script, recVars, main_audio,
                   rec_pc, proc_audio, interrupted, capture_error,
                   transcribed>>

\* recorder.start() (line 204; lines 39-55)
MainStartRecorder ==
    /\ main_pc = "start_recorder"
    /\ stream' = "open"
    /\ recording' = TRUE
    /\ total_samples' = 0
    /\ current_chunk' = <<>>
    /\ rec_chunk_number' = 0
    /\ rec_pc' = "while"
    /\ main_pc' = "loop"
    /\ UNCHANGED <<mgrVars, script, chunk_queue, device_frames, main_audio,
                   proc_pc, proc_audio, interrupted, capture_error,
                   transcribed>>

\* while True (line 207)
MainLoop ==
    /\ main_pc = "loop"
    /\ main_pc' = "get"
    /\ UNCHANGED <<mgrVars, script, recVars, main_audio, rec_pc, proc_pc,
                   proc_audio, interrupted, capture_error, transcribed>>

\* audio_data = recorder.chunk_queue.get(timeout=1) (line 210)
MainGet ==
    /\ main_pc = "get"
    /\ chunk_queue # <<>>
    /\ main_audio' = QueueGet(chunk_queue).item
    /\ chunk_queue' = QueueGet(chunk_queue).rest
    /\ main_pc' = "put"
    /\ UNCHANGED <<mgrVars, script, recording, stream, current_chunk,
                   total_samples, rec_chunk_number, device_frames, rec_pc,
                   proc_pc, proc_audio, interrupted, capture_error,
                   transcribed>>

\* except queue.Empty: continue (lines 212-213)
MainGetTimeout ==
    /\ main_pc = "get"
    /\ GetTimesOut(chunk_queue)
    /\ main_pc' = "loop"
    /\ UNCHANGED <<mgrVars, script, recVars, main_audio, rec_pc, proc_pc,
                   proc_audio, interrupted, capture_error, transcribed>>

\* manager.transcription_queue.put(audio_data) (line 211)
MainPut ==
    /\ main_pc = "put"
    /\ transcription_queue' = QueuePut(transcription_queue, main_audio)
    /\ main_audio' = <<>>
    /\ main_pc' = "loop"
    /\ UNCHANGED <<processing, last_word_end, chunk_number, prev_words, out,
                   last_call, script, recVars, rec_pc, proc_pc, proc_audio,
                   interrupted, capture_error, transcribed>>

\* KeyboardInterrupt inside the try block (lines 198-216): control goes to
\* the finally block
Interrupt ==
    /\ ~interrupted
    /\ main_pc \in {"start_manager", "start_recorder", "loop", "get", "put"}
    /\ interrupted' = TRUE
    /\ main_pc' = "stop_recorder"
    /\ UNCHANGED <<mgrVars, script, recVars, main_audio, rec_pc, proc_pc,
                   proc_audio, capture_error, transcribed>>

\* recorder.stop() up to the join (line 219; lines 59-62)
MainStopRecorder ==
    /\ main_pc = "stop_recorder"
    /\ recording' = FALSE
    /\ stream' = IF stream = "none" THEN "none" ELSE "closed"
    /\ main_pc' = "join_recorder"
    /\ UNCHANGED <<mgrVars, script, chunk_queue, current_chunk, total_samples,
                   rec_chunk_number, device_frames, main_audio, rec_pc,
                   proc_pc, proc_audio, interrupted, capture_error,
                   transcribed>>

\* self.record_thread.join() (lines 63-64)
MainJoinRecorder ==
    /\ main_pc = "join_recorder"
    /\ Joined(rec_pc)
    /\ main_pc' = "stop_manager"
    /\ UNCHANGED <<mgrVars, script, recVars, main_audio, rec_pc, proc_pc,
                   proc_audio, interrupted, capture_error, transcribed>>

\* manager.stop() up to the join (line 220; line 105)
MainStopManager ==
    /\ main_pc = "stop_manager"
    /\ processing' = FALSE
    /\ main_pc' = "join_manager"
    /\ UNCHANGED <<transcription_queue, last_word_end, chunk_number,
                   prev_words, out, last_call, script, recVars, main_audio,
                   rec_pc, proc_pc, proc_audio, interrupted, capture_error,
                   transcribed>>

\* self.process_thread.join() and the end of main() (lines 106-107, 221)
MainJoinManager ==
    /\ main_pc = "join_manager"
    /\ Joined(proc_pc)
    /\ main_pc' = "done"
    /\ UNCHANGED <<mgrVars, script, recVars, main_audio, rec_pc, proc_pc,
                   proc_audio, interrupted, capture_error, transcribed>>

\* ---- AudioRecorder._record_loop (lines 66-86) ----

\* while self.recording (line 68)
RecWhile ==
    /\ rec_pc = "while"
    /\ rec_pc' = IF recording THEN "read" ELSE "done"
    /\ UNCHANGED <<mgrVars, script, recVars, mainVars, proc_pc, proc_audio,
                   capture_error, transcribed>>

RecReadKeepingFrames ==
    /\ rec_pc = "read"
    /\ rec_chunk_number < MaxChunks
    /\ device_frames' = device_frames + 1
    /\ LET chunk == Append(current_chunk, device_frames + 1)
           samples == total_samples + CHUNK_SIZE
       IN IF samples >= samples_per_chunk
          THEN /\ rec_chunk_number' = rec_chunk_number + 1
               /\ chunk_queue' = QueuePut(chunk_queue, chunk)
               /\ current_chunk' = chunk
               /\ total_samples' = 0
          ELSE /\ current_chunk' = chunk
               /\ total_samples' = samples
               /\ UNCHANGED <<rec_chunk_number, chunk_queue>>
    /\ rec_pc' = "while"
    /\ UNCHANGED <<mgrVars, script, recording, stream, mainVars, proc_pc,
                   proc_audio, capture_error, transcribed>>

RecReadKeepingCount ==
    /\ rec_pc = "read"
    /\ rec_chunk_number < MaxChunks
    /\ device_frames' = device_frames + 1
    /\ LET chunk == Append(current_chunk, device_frames + 1)
           samples == total_samples + CHUNK_SIZE
       IN IF samples >= samples_per_chunk
          THEN /\ rec_chunk_number' = rec_chunk_number + 1
               /\ chunk_queue' = QueuePut(chunk_queue, chunk)
               /\ current_chunk' = <<>>
               /\ total_samples' = samples
          ELSE /\ current_chunk' = chunk
               /\ total_samples' = samples
               /\ UNCHANGED <<rec_chunk_number, chunk_queue>>
    /\ rec_pc' = "while"
    /\ UNCHANGED <<mgrVars, script, recording, stream, mainVars, proc_pc,
                   proc_audio, capture_error, transcribed>>

\* One pass of the loop body (lines 70-82): the device delivers a frame
\* of CHUNK_SIZE samples.  A read that was under way when main() closed
\* the stream may still deliver its frame.
RecRead ==
    /\ rec_pc = "read"
    /\ rec_chunk_number < MaxChunks
    /\ device_frames' = device_frames + 1
    /\ LET chunk == Append(current_chunk, device_frames + 1)
           samples == total_samples + CHUNK_SIZE
       IN IF samples >= samples_per_chunk
          THEN /\ rec_chunk_number' = rec_chunk_number + 1
               /\ chunk_queue' = QueuePut(chunk_queue, chunk)
               /\ current_chunk' = <<>>
               /\ total_samples' = 0
          ELSE /\ current_chunk' = chunk
               /\ total_samples' = samples
               /\ UNCHANGED <<rec_chunk_number, chunk_queue>>
    /\ rec_pc' = "while"
    /\ UNCHANGED <<mgrVars, script, recording, stream, mainVars, proc_pc,
                   proc_audio, capture_error, transcribed>>

\* self.stream.read raises while the stream is open: the device failed
\* (lines 84-86)
RecReadFails ==
    /\ rec_pc = "read"
    /\ stream = "open"
    /\ capture_error' = TRUE
    /\ rec_pc' = "done"
    /\ UNCHANGED <<mgrVars, script, recVars, mainVars, proc_pc, proc_audio,
                   transcribed>>

\* self.stream.read raises because main() has closed the stream
\* (lines 84-86)
RecReadClosed ==
    /\ rec_pc = "read"
    /\ stream = "closed"
    /\ capture_error' = TRUE
    /\ rec_pc' = "done"
    /\ UNCHANGED <<mgrVars, script, recVars, mainVars, proc_pc, proc_audio,
                   transcribed>>

\* ---- TranscriptionManager._process_loop (lines 109-126) ----

\* while self.processing (line 111)
ProcWhile ==
    /\ proc_pc = "while"
    /\ proc_pc' = IF processing THEN "get" ELSE "done"
    /\ UNCHANGED <<mgrVars, script, recVars, mainVars, rec_pc, proc_audio,
                   capture_error, transcribed>>

\* audio_data = self.transcription_queue.get(timeout=1);
\* self.chunk_number += 1 (lines 114-115)
ProcGet ==
    /\ proc_pc = "get"
    /\ transcription_queue # <<>>
    /\ proc_audio' = QueueGet(transcription_queue).item
    /\ transcription_queue' = QueueGet(transcription_queue).rest
    /\ chunk_number' = chunk_number + 1
    /\ proc_pc' = "transcribe"
    /\ UNCHANGED <<processing, last_word_end, prev_words, out, last_call,
                   script, recVars, mainVars, rec_pc, capture_error,
                   transcribed>>

\* except queue.Empty: continue (lines 123-124)
ProcGetTimeout ==
    /\ proc_pc = "get"
    /\ GetTimesOut(transcription_queue)
    /\ proc_pc' = "while"
    /\ UNCHANGED <<mgrVars, script, recVars, mainVars, rec_pc, proc_audio,
                   capture_error, transcribed>>

\* response = self._transcribe_chunk(audio_data) returns, and the
\* response is handled (lines 118-121)
ProcTranscribe ==
    /\ proc_pc = "transcribe"
    /\ \E response \in PipeResponses :
          /\ HandleResponse(response)
          /\ transcribed' = Append(transcribed,
                                   [audio |-> proc_audio, kind |-> response.kind])
    /\ proc_audio' = <<>>
    /\ proc_pc' = "while"
    /\ UNCHANGED <<transcription_queue, processing, chunk_number, script,
                   recVars, mainVars, rec_pc, capture_error>>

MainThread ==
    \/ MainStartManager \/ MainStartRecorder \/ MainLoop \/ MainGet
    \/ MainGetTimeout \/ MainPut \/ MainStopRecorder \/ MainJoinRecorder
    \/ MainStopManager \/ MainJoinManager

RecThread == RecWhile \/ RecRead \/ RecReadClosed

ProcThread == ProcWhile \/ ProcGet \/ ProcGetTimeout \/ ProcTranscribe

Init == MgrInit /\ RecInit /\ ThreadInit /\ script = NoScript

Next ==
    \/ MainStartManager \/ MainStartRecorder \/ MainLoop \/ MainGet
    \/ MainGetTimeout \/ MainPut \/ Interrupt \/ MainStopRecorder
    \/ MainJoinRecorder \/ MainStopManager \/ MainJoinManager
    \/ RecWhile \/ RecRead \/ RecReadFails \/ RecReadClosed
    \/ ProcWhile \/ ProcGet \/ ProcGetTimeout \/ ProcTranscribe

Spec == Init /\ [][Next]_vars

\* Every thread that can take a step takes one in the end: a blocked read
\* on a closed stream ends, and the speech service answers.  The
\* interrupt and a failure of the device are left to the environment.
FairSpec ==
    /\ Spec
    /\ WF_vars(MainThread)
    /\ WF_vars(RecThread)
    /\ WF_vars(ProcThread)

(***************************************************************************)
(* Properties of one merge (MergeSpec).                                    *)
(***************************************************************************)
\* P and C hold a common run of s texts at (Python) positions i and j
IsCommonRun(P, C, i, j, s) ==
    /\ s >= 1
    /\ i + s <= Len(P)
    /\ j + s <= Len(C)
    /\ \A k \in 1..s : P[i + k] = C[j + k]

Positions(P, C) == (0..(Len(P) - 1)) \X (0..(Len(C) - 1))

LongestRun(P, C) ==
    LET lengths == {0} \cup
            {s \in 1..Len(C) :
                \E r \in Positions(P, C) : IsCommonRun(P, C, r[1], r[2], s)}
    IN CHOOSE s \in lengths : \A t \in lengths : t <= s

\* the leftmost run of length s: the earliest in P, and of those the
\* earliest in C
LeftmostRun(P, C, s) ==
    CHOOSE r \in Positions(P, C) :
        /\ IsCommonRun(P, C, r[1], r[2], s)
        /\ \A q \in Positions(P, C) :
              IsCommonRun(P, C, q[1], q[2], s) =>
                  \/ r[1] < q[1]
                  \/ (r[1] = q[1] /\ r[2] <= q[2])

Merged == last_call.kind = "merge"

\* C3: with P the previous words ending within OVERLAP_SEC of the last
\* previous word's end and C the current words starting before
\* OVERLAP_SEC, both as normalized texts: when the longest common run of
\* P and C is longer than 2, a merge emits the current words after the
\* end of the leftmost such run (leftmost in P, then in C); when it is 2
\* or shorter, the merge emits all the current words.
C3_OverlapThreshold ==
    Merged =>
        LET P == PrevWordsOnly(last_call.prev)
            C == CurrWordsOnly(last_call.words)
            s == LongestRun(P, C)
            n == Len(last_call.words)
        IN IF s > 2
           THEN last_call.new_words =
                    SubSeq(last_call.words, LeftmostRun(P, C, s)[2] + s + 1, n)
           ELSE last_call.new_words = last_call.words

\* a merge over a run of 3 that starts at the second current word, found
\* at two places of P
C3_Witness ==
    /\ Merged
    /\ LongestRun(PrevWordsOnly(last_call.prev),
                  CurrWordsOnly(last_call.words)) = 3
    /\ last_call.trim_index = 4
    /\ Len(last_call.prev) = 4
    /\ last_call.prev[1].word # last_call.words[2].word

\* C4: a merge into an empty prev_words takes trim_index 0 and emits
\* (prints) every current word, in order.
C4_FirstChunkVerbatim ==
    (Merged /\ last_call.prev = <<>>) =>
        /\ last_call.trim_index = 0
        /\ last_call.new_words = last_call.words
        /\ Len(out) >= Len(Printed(last_call.words))
        /\ SubSeq(out, Len(out) - Len(Printed(last_call.words)) + 1, Len(out))
               = Printed(last_call.words)

\* a first chunk of four words whose first three repeat one text
C4_Witness ==
    /\ Merged
    /\ last_call.prev = <<>>
    /\ Len(last_call.words) = 4
    /\ CurrWordsOnly(last_call.words) = <<<<"a">>, <<"a">>, <<"a">>, <<"b">>>>
    /\ Len(last_call.new_words) = 4

(***************************************************************************)
(* Properties of scripted runs (ScriptSpec).                               *)
(***************************************************************************)
ScriptDone == chunk_number = Len(script.responses)

HelloWorldHowAreYou ==
    Hello \o <<" ">> \o World \o <<" ">> \o How \o <<" ">> \o Are
          \o <<" ">> \o You

\* C1 as stated: the two merges of the end-to-end scenario print
\* "hello world how are you" (each fragment after a space).
C1_AsStated ==
    (script.kind = "e2e" /\ ScriptDone) =>
        /\ out = <<" ">> \o HelloWorldHowAreYou
        /\ last_call.new_words = <<W(You, 7, 10)>>

\* C1, amended: the common run "how are" has length 2, which is not more
\* than 2, so the second merge emits all of chunk 2 and the console holds
\* "hello world how are how are you".
C1_E2EPrintsOverlapTwice ==
    (script.kind = "e2e" /\ ScriptDone) =>
        /\ last_call.trim_index = 0
        /\ last_call.new_words = E2EChunk2
        /\ out = <<" ">> \o Hello \o <<" ">> \o World \o <<" ">> \o How
                  \o <<" ">> \o Are \o <<" ">> \o How \o <<" ">> \o Are
                  \o <<" ">> \o You

C1_Witness ==
    /\ script.kind = "e2e"
    /\ ScriptDone
    /\ last_call.prev = E2EChunk1
    /\ PrevWordsOnly(last_call.prev) = <<How, Are>>
    /\ CurrWordsOnly(last_call.words) = <<How, Are, You>>

GapChunk1 == script.responses[1].words
GapChunk2 == script.responses[3].words
Texts3(ws) == [i \in 1..3 |-> Normalize(ws[i].word)]

\* C2 as stated: a merge of an empty word list emits nothing and leaves
\* prev_words empty, and the next chunk is merged as a first chunk
\* (trim_index 0, every word emitted).
C2_AsStated ==
    script.kind = "gap" =>
        /\ chunk_number = 2 =>
              /\ out = Printed(GapChunk1)
              /\ prev_words = <<>>
        /\ chunk_number = 3 =>
              /\ last_call.trim_index = 0
              /\ last_call.new_words = GapChunk2

\* C2, amended: a merge of an empty word list returns at once: it emits
\* nothing and leaves prev_words and last_word_end as they were, so the
\* next chunk is merged against the chunk before the empty one (here:
\* it is withheld whole when their three texts agree).
C2_EmptyKeepsHistory ==
    script.kind = "gap" =>
        /\ chunk_number = 2 =>
              /\ last_call.kind = "empty"
              /\ out = Printed(GapChunk1)
              /\ prev_words = GapChunk1
              /\ last_word_end = GapChunk1[3].end
        /\ chunk_number = 3 =>
              /\ last_call.prev = GapChunk1
              /\ last_call.new_words =
                    IF Texts3(GapChunk1) = Texts3(GapChunk2)
                    THEN <<>> ELSE GapChunk2

\* the chunk after the empty one repeats the chunk before it, in another
\* spelling, and is withheld
C2_Witness ==
    /\ script.kind = "gap"
    /\ chunk_number = 3
    /\ last_call.new_words = <<>>
    /\ last_call.trim_index = 3
    /\ GapChunk1 # GapChunk2
    /\ out = Printed(GapChunk1)

SentenceLength == script.a + script.k1 + script.b + script.k2 + script.d

Tokens(from, to) == [i \in 1..(to - from + 1) |-> Token(from + i - 1)]

\* C5 as stated: whatever the sizes of the shared overlaps, the three
\* merges print the sentence, each word once.
C5_AsStated ==
    (script.kind = "sentence" /\ ScriptDone) =>
        out = <<" ">> \o Join(Tokens(1, SentenceLength))

\* C5, amended: the three merges print the sentence, each word once, when
\* both shared overlaps are longer than 2 words; a shared overlap of 1 or
\* 2 words is printed twice, and no word is dropped.
C5_SentenceOverlapsOverTwo ==
    (script.kind = "sentence" /\ ScriptDone) =>
        LET end1 == script.a + script.k1
            end2 == end1 + script.b + script.k2
            first2 == IF script.k1 > 2 THEN end1 + 1 ELSE script.a + 1
            first3 == IF script.k2 > 2 THEN end2 + 1
                      ELSE end1 + script.b + 1
        IN out = <<" ">> \o Join(Tokens(1, end1) \o Tokens(first2, end2)
                                  \o Tokens(first3, SentenceLength))

C5_Witness ==
    /\ script.kind = "sentence"
    /\ ScriptDone
    /\ script.k1 = 3
    /\ script.k2 = 4
    /\ script.b = 1
    /\ out = <<" ">> \o Join(Tokens(1, SentenceLength))

(***************************************************************************)
(* Properties of the whole program (Spec, FairSpec).                       *)
(***************************************************************************)
RecEnded == rec_pc \in {"unstarted", "done"}
ProcEnded == proc_pc \in {"unstarted", "done"}

ShutdownComplete ==
    /\ main_pc = "done"
    /\ ~recording
    /\ ~processing
    /\ RecEnded
    /\ ProcEnded

\* C6: when the device read raises in the recorder thread and no
\* interrupt comes, main() still runs its shutdown sequence: processing
\* is cleared and both threads end.
C6_CaptureErrorShutsDown ==
    (capture_error /\ ~interrupted) ~> (interrupted \/ ShutdownComplete)

FailureKinds == {"none", "nowords"}

\* C7: when the transcription of a chunk returns None or a response
\* without words, nothing is printed, prev_words and last_word_end stay
\* as they were, and the transcription thread goes back to the head of
\* its loop with its queue and its run flag untouched.
C7_FailureKeepsMergeState ==
    [][(/\ proc_pc = "transcribe"
        /\ Len(transcribed') = Len(transcribed) + 1
        /\ transcribed'[Len(transcribed')].kind \in FailureKinds)
       => (/\ out' = out
           /\ prev_words' = prev_words
           /\ last_word_end' = last_word_end
           /\ proc_pc' = "while"
           /\ processing' = processing
           /\ transcription_queue' = transcription_queue)]_vars

\* a failure between two merges: the second merge is made against the
\* first chunk's words and withholds the three words the chunks share
C7_Witness ==
    /\ Len(transcribed) = 3
    /\ transcribed[1].kind = "words"
    /\ transcribed[2].kind = "none"
    /\ transcribed[3].kind = "words"
    /\ last_call.kind = "merge"
    /\ last_call.prev = PipeList1
    /\ last_call.trim_index = 3
    /\ out = Printed(PipeList1) \o Printed(<<PipeList2[4]>>)

\* C8: the chunks are transcribed in the order the recorder cut them:
\* each transcribed chunk starts with the frame after the last frame of
\* the chunk transcribed before it, the first with frame 1.
C8_FifoOrder ==
    \A i \in 1..Len(transcribed) :
        LET audio == transcribed[i].audio
        IN /\ audio # <<>>
           /\ audio[1] = IF i = 1 THEN 1
                         ELSE LET before == transcribed[i - 1].audio
                              IN before[Len(before)] + 1

\* two chunks transcribed, the second while nothing else is queued
C8_Witness ==
    /\ Len(transcribed) = 2
    /\ transcribed[2].audio[1] > transcribed[1].audio[1]
    /\ rec_chunk_number = 2
    /\ ~interrupted

\* C9: after the interrupt main() stops the recorder before the manager,
\* both threads end, and main() ends only after both have ended.
C9_ShutdownTerminates ==
    /\ interrupted ~> ShutdownComplete
    /\ [](main_pc \in {"stop_manager", "join_manager", "done"}
            => (~recording /\ RecEnded))
    /\ [](main_pc = "done" => (~processing /\ ProcEnded))

\* main() has ended after an interrupt that found the recorder thread in
\* a device read and left a chunk in the queue of the idle or busy
\* transcription thread
C9_Witness ==
    /\ ShutdownComplete
    /\ interrupted
    /\ rec_pc = "done"
    /\ proc_pc = "done"
    /\ capture_error
    /\ current_chunk # <<>>

\* C10 as stated: from the interrupt on, nothing more is printed.
C10_AsStated == [][interrupted => out' = out]_vars

\* C10, amended: once main() has run its shutdown sequence to the end
\* (manager.stop() has returned), nothing more is printed; between the
\* interrupt and that point the transcription thread still prints the
\* words of the chunks it takes.
C10_NoOutputAfterShutdown == [][main_pc = "done" => out' = out]_vars

C10_Witness ==
    /\ main_pc = "done"
    /\ interrupted
    /\ out # <<>>
    /\ transcription_queue # <<>>

(***************************************************************************)
(* Properties of the transcript over a whole session (Spec).               *)
(***************************************************************************)
\* s is t or a beginning of t
IsPrefix(s, t) == Len(s) <= Len(t) /\ SubSeq(t, 1, Len(s)) = s

\* C11: every step of the program, whatever the response handled (words,
\* an empty word list, a failure), leaves what is already printed in
\* place: the console after the step starts with the console before it.
C11_AppendOnly == [][IsPrefix(out, out')]_vars

\* a merge that printed three words, then a failed transcription, then an
\* empty word list: the three words are still the whole console
C11_Witness ==
    /\ Len(transcribed) = 3
    /\ transcribed[1].kind = "words"
    /\ transcribed[2].kind = "none"
    /\ last_call.kind = "empty"
    /\ prev_words = PipeList1
    /\ out = Printed(PipeList1)

(***************************************************************************)
(* Further properties of one merge (MergeSpec).                            *)
(***************************************************************************)
\* s is t or an end of t
IsSuffix(s, t) ==
    Len(s) <= Len(t) /\ SubSeq(t, Len(t) - Len(s) + 1, Len(t)) = s

\* C12: the words a merge emits are an unbroken end of the current word
\* list, in the list's order, and they are printed in that order at the
\* end of the console.
C12_EmittedIsSuffix ==
    Merged =>
        /\ IsSuffix(last_call.new_words, last_call.words)
        /\ last_call.new_words # <<>> =>
               IsSuffix(Printed(last_call.new_words), out)

\* a merge that withholds the first three of four words and emits the
\* fourth, "b", after a console that ended with "a"
C12_Witness ==
    /\ Merged
    /\ last_call.prev # <<>>
    /\ last_call.trim_index = 3
    /\ Len(last_call.words) = 4
    /\ last_call.new_words = <<last_call.words[4]>>
    /\ Normalize(last_call.words[4].word) = <<"b">>
    /\ Normalize(last_call.words[1].word) = <<"a">>
    /\ IsSuffix(<<"a", " ", "b">>, out)

(***************************************************************************)
(* Properties of the recorder (Spec).                                      *)
(***************************************************************************)
\* the samples of a chunk: its frames hold CHUNK_SIZE samples each
Samples(chunk) == Len(chunk) * CHUNK_SIZE

\* C13 as stated: every chunk on the chunk queue holds exactly
\* RATE * CHUNK_LEN_SEC = 64000 samples.
C13_AsStated ==
    \A i \in 1..Len(chunk_queue) :
        Samples(chunk_queue[i]) = RATE * CHUNK_LEN_SEC

\* C13, amended: every chunk on the chunk queue holds whole frames, as
\* few as reach RATE * CHUNK_LEN_SEC samples: 63 frames, 64512 samples,
\* 512 more than 64000.
C13_ChunkIsWholeFrames ==
    \A i \in 1..Len(chunk_queue) :
        /\ Samples(chunk_queue[i]) >= RATE * CHUNK_LEN_SEC
        /\ Samples(chunk_queue[i]) - CHUNK_SIZE < RATE * CHUNK_LEN_SEC
        /\ Len(chunk_queue[i]) = 63
        /\ Samples(chunk_queue[i]) = 64512

\* two chunks wait on the chunk queue
C13_Witness ==
    /\ Len(chunk_queue) = 2
    /\ Len(chunk_queue[2]) = 63
    /\ rec_chunk_number = 2

\* a local audio_data as a list of chunks: empty when it holds none
Held(audio) == IF audio = <<>> THEN <<>> ELSE <<audio>>

\* every chunk that has left the recorder, from the oldest to the newest:
\* those handed to the speech service, the one the transcription thread
\* holds, the transcription queue, the one main() holds, the chunk queue
Pipeline ==
    [i \in 1..Len(transcribed) |-> transcribed[i].audio]
        \o Held(proc_audio) \o transcription_queue \o Held(main_audio)
        \o chunk_queue

\* C14: no chunk is discarded or skipped: the chunks on their way are at
\* all times all the chunks the recorder has cut, in the order of their
\* frames; and a chunk that waits is handed to the speech service in the
\* end unless the session is interrupted: again and again every chunk cut
\* so far has been handed over, or else chunks are handed over for ever
\* (the queues being first-in first-out, each chunk then gets its turn).
C14_NoChunkDropped ==
    /\ [](/\ Len(Pipeline) = rec_chunk_number
          /\ \A c \in 1..Len(Pipeline) :
                /\ Pipeline[c] # <<>>
                /\ Pipeline[c][1] =
                      IF c = 1 THEN 1
                      ELSE Pipeline[c - 1][Len(Pipeline[c - 1])] + 1)
    /\ \/ []<>(interrupted \/ Len(transcribed) = rec_chunk_number)
       \/ []<><<Len(transcribed') > Len(transcribed)>>_vars

\* a backlog: the first chunk has been transcribed, the transcription
\* thread is busy with the second, and the third waits in its queue
C14_Witness ==
    /\ ~interrupted
    /\ Len(transcribed) = 1
    /\ proc_pc = "transcribe"
    /\ Len(transcription_queue) = 1
    /\ rec_chunk_number = 3

\* b"".join(chunks): the frames of a list of chunks, one after the other
RECURSIVE Flatten(_)
Flatten(chunks) ==
    IF chunks = <<>> THEN <<>> ELSE Head(chunks) \o Flatten(Tail(chunks))

\* the frames the device has delivered, in order
Captured == [i \in 1..device_frames |-> i]

\* C15: the chunks cut so far, one after the other, followed by the
\* accumulator, are the captured frames, each once and in order (so two
\* chunks share no frame and the chunks are a beginning of the captured
\* stream); the count is the accumulator's samples and stays below
\* samples_per_chunk (the accumulator is emitted whole and reset when the
\* count reaches it); and once the recorder thread has ended, the frames
\* left in the accumulator stay there and no chunk is added.
C15_ChunkerPartition ==
    /\ [](/\ Flatten(Pipeline) \o current_chunk = Captured
          /\ total_samples = Samples(current_chunk)
          /\ total_samples < samples_per_chunk)
    /\ [][rec_pc = "done" =>
            /\ current_chunk' = current_chunk
            /\ rec_chunk_number' = rec_chunk_number
            /\ Pipeline' = Pipeline]_vars

\* the session was stopped in the middle of the third chunk: two chunks
\* were cut and some frames are left in the accumulator
C15_Witness ==
    /\ main_pc = "done"
    /\ rec_pc = "done"
    /\ rec_chunk_number = 2
    /\ current_chunk # <<>>
    /\ Len(Pipeline) = 2
    /\ device_frames > 2 * 63

(***************************************************************************)
(* Properties of prev_words and last_word_end.                             *)
(***************************************************************************)
\* C16: after a merge of a non-empty word list, prev_words is that whole
\* list, also when the merge withheld some or all of its words; and the
\* merge that follows compares against it.
C16_HistoryIsWholeList ==
    /\ [](Merged => prev_words = last_call.words)
    /\ [][(Merged /\ Merged') => last_call'.prev = last_call.words]_vars

\* a merge whose four words are all matched: nothing is emitted and
\* prev_words becomes the four words
C16_Witness ==
    /\ Merged
    /\ last_call.prev # <<>>
    /\ last_call.prev # last_call.words
    /\ last_call.trim_index = 4
    /\ last_call.new_words = <<>>
    /\ Len(prev_words) = 4
    /\ prev_words = last_call.words

(***************************************************************************)
(* Which words a merge withholds (MergeSpec).                              *)
(***************************************************************************)
\* C17: a merge withholds a current word only when a run was accepted and
\* the word's normalized text is the text of a word of P inside that run.
C17_OnlyDuplicatesWithheld ==
    Merged =>
        LET P == PrevWordsOnly(last_call.prev)
            C == CurrWordsOnly(last_call.words)
            match == FindLongestMatch(P, C)
        IN \A i \in 1..last_call.trim_index :
              /\ AcceptMatch(match.size)
              /\ \E k \in 1..match.size :
                    P[match.a + k] = Normalize(last_call.words[i].word)

\* the word list is in the order of its start times
Chronological(words) ==
    \A i \in 1..(Len(words) - 1) : words[i].start <= words[i + 1].start

\* the positions of the words that start before OVERLAP_SEC
HeadPositions(words) ==
    {i \in 1..Len(words) : words[i].start < Sec(OVERLAP_SEC)}

\* C18: in a merge of a chronological word list, trim_index is at most
\* the number of words that start before OVERLAP_SEC; these words are the
\* first of the list, so that an index of C is the same index of the
\* list; and every word that starts at OVERLAP_SEC or later is emitted.
C18_TrimBound ==
    (Merged /\ Chronological(last_call.words)) =>
        LET words == last_call.words
            head == Cardinality(HeadPositions(words))
        IN /\ last_call.trim_index <= head
           /\ HeadPositions(words) = 1..head
           /\ \A i \in 1..Len(words) :
                 words[i].start >= Sec(OVERLAP_SEC) =>
                    /\ i > last_call.trim_index
                    /\ last_call.new_words[i - last_call.trim_index] = words[i]

\* four words 0.4 s apart: the first three start in the first second and
\* are matched, the fourth starts at 1.2 s and is emitted
C18_Witness ==
    /\ Merged
    /\ Chronological(last_call.words)
    /\ Len(last_call.words) = 4
    /\ last_call.words[4].start >= Sec(OVERLAP_SEC)
    /\ last_call.trim_index = 3
    /\ last_call.new_words = <<last_call.words[4]>>
    /\ Normalize(last_call.words[4].word) = Normalize(last_call.words[3].word)

(***************************************************************************)
(* last_word_end over a whole session (Spec).                              *)
(***************************************************************************)
\* C19: last_word_end is 0 as long as nothing has been printed; a step
\* that prints words sets it to the end time of the last word printed;
\* every other step (an empty word list, a list withheld whole, a failed
\* transcription, a step of another thread) leaves it as it is.
C19_LastWordEndTracks ==
    /\ [](out = <<>> => last_word_end = 0)
    /\ [][IF out' # out
          THEN /\ last_call'.new_words # <<>>
               /\ last_word_end' =
                     last_call'.new_words[Len(last_call'.new_words)].end
          ELSE last_word_end' = last_word_end]_vars

\* three words printed, then the fourth word of the next list (end time
\* 1.2 s), then a failed transcription
C19_Witness ==
    /\ Len(transcribed) = 3
    /\ transcribed[3].kind = "none"
    /\ last_call.kind = "failed"
    /\ prev_words = PipeList2
    /\ out = Printed(PipeList1) \o Printed(<<PipeList2[4]>>)
    /\ last_word_end = PipeList2[4].end

====
